---- MODULE Spec2Model ----
(***************************************************************************)
(* Model of src/app.py: the Flask review-scraper service.                  *)
(*                                                                         *)
(* Processes.  The server is started with threaded=True (app.py:309-314),  *)
(* so request handlers run concurrently: Handlers are the handler threads. *)
(* Threads are the threading.Thread objects that scrape_endpoint creates   *)
(* to run background_scraper.  Both kinds of process execute               *)
(* scrape_reviews, so the steps of scrape_reviews are written once, for a  *)
(* process p.                                                              *)
(*                                                                         *)
(* Python dicts are modelled as records.  A dict object is created with a  *)
(* fresh reading of the clock, so the timestamp field also identifies the  *)
(* object: two references with the same timestamp are the same dict.       *)
(***************************************************************************)
EXTENDS Integers, Sequences, FiniteSets

\* ------------------------------------------------------------------ bounds
NumHandlers == 2    \* concurrent request-handler threads
MaxThreads  == 2    \* Thread objects created over a run
MaxClock    == 3    \* readings of datetime.utcnow() over a run
MaxReviews  == 1    \* longest review list a scraper returns
MaxBusy     == 1    \* requests in flight at the same time

Handlers == 1..NumHandlers
Threads  == (NumHandlers + 1)..(NumHandlers + MaxThreads)
Procs    == Handlers \cup Threads

\* scraping_thread = None
NoThread == 0

\* ------------------------------------------------------------ request data
\* request.args.get('yelp_url', '') and request.args.get('amazon_url', ''):
\* the empty string stands for a missing (or empty) parameter.
YelpArgs   == {"", "yelp-biz"}
AmazonArgs == {"", "B08N5WRWNW"}
\* request.args.get('refresh_interval', type=int): None (<< >>) when the
\* parameter is missing or is not an integer, else the integer (<<n>>).
IntervalArgs == {<< >>, <<-1>>, <<1>>}

NoArgs == [yelp_input |-> "", amazon_input |-> "", refresh_interval |-> << >>]

\* ------------------------------------------------------- scraper outcomes
\* What one call of get_reviews does: it returns a list of reviews or raises.
ReviewLists == {[i \in 1..n |-> "review"] : n \in 0..MaxReviews}
FetchOutcomes ==
    {[ok |-> TRUE, reviews |-> r, e |-> ""] : r \in ReviewLists}
        \cup {[ok |-> FALSE, reviews |-> << >>, e |-> "boom"]}

\* The calls of get_reviews a process made in its current cycle, per source,
\* and whether the cycle ended in the general handler (app.py:132-145).
NoCalls == [yelp |-> << >>, amazon |-> << >>, general |-> FALSE]

\* -------------------------------------------------------------- snapshots
\* A variant of the initial dict whose status is 'success'
InitialDataSuccess ==
    [timestamp |-> 0, yelp_reviews |-> << >>, amazon_reviews |-> << >>,
     status |-> "success", errors |-> << >>,
     background_scraping |-> FALSE, refresh_interval |-> << >>]

\* latest_data as the module is loaded.  timestamp 0 is None; the keys
\* background_scraping and refresh_interval are absent (FALSE, << >>).
InitialData ==
    [timestamp |-> 0, yelp_reviews |-> << >>, amazon_reviews |-> << >>,
     status |-> "no_data", errors |-> << >>,
     background_scraping |-> FALSE, refresh_interval |-> << >>]

\* A variant of the initial result dict whose status starts as 'no_data'
NewResultNoData(ts) ==
    [timestamp |-> ts, yelp_reviews |-> << >>, amazon_reviews |-> << >>,
     status |-> "no_data", errors |-> << >>,
     background_scraping |-> FALSE, refresh_interval |-> << >>]

\* result as scrape_reviews initialises it
NewResult(ts) ==
    [timestamp |-> ts, yelp_reviews |-> << >>, amazon_reviews |-> << >>,
     status |-> "success", errors |-> << >>,
     background_scraping |-> FALSE, refresh_interval |-> << >>]

\* f"Yelp scraping failed: {str(e)}" and f"Amazon scraping failed: {str(e)}"
YelpError(e)    == [prefix |-> "Yelp scraping failed", e |-> e]
AmazonError(e)  == [prefix |-> "Amazon scraping failed", e |-> e]
GeneralError(e) == [prefix |-> "General scraping error", e |-> e]

\* A variant of the general handler's dict that records no error message
FailedResultNoErrors(ts) ==
    [timestamp |-> ts, yelp_reviews |-> << >>, amazon_reviews |-> << >>,
     status |-> "failed", errors |-> << >>,
     background_scraping |-> FALSE, refresh_interval |-> << >>]

\* result as the general handler rebuilds it
FailedResult(ts) ==
    [timestamp |-> ts, yelp_reviews |-> << >>, amazon_reviews |-> << >>,
     status |-> "failed", errors |-> <<GeneralError("unexpected")>>,
     background_scraping |-> FALSE, refresh_interval |-> << >>]

\* A variant of the status update that looks at the Yelp list only
UpdateStatusYelpOnly(r) ==
    IF r.errors # << >> /\ r.yelp_reviews = << >>
    THEN [r EXCEPT !.status = "failed"]
    ELSE IF r.errors # << >>
         THEN [r EXCEPT !.status = "partial_success"]
         ELSE r

\* "Update status based on results"
UpdateStatus(r) ==
    IF r.errors # << >> /\ r.yelp_reviews = << >> /\ r.amazon_reviews = << >>
    THEN [r EXCEPT !.status = "failed"]
    ELSE IF r.errors # << >>
         THEN [r EXCEPT !.status = "partial_success"]
         ELSE r

\* A variant of the Yelp block that does not store the list it was given
ApplyYelpDropsReviews(r, o) ==
    IF o.ok THEN r
    ELSE [r EXCEPT !.errors = Append(@, YelpError(o.e))]

\* The Yelp block of scrape_reviews applied to the outcome o of get_reviews
ApplyYelp(r, o) ==
    IF o.ok THEN [r EXCEPT !.yelp_reviews = o.reviews]
    ELSE [r EXCEPT !.errors = Append(@, YelpError(o.e))]

\* A variant of the Amazon block that puts its message first
ApplyAmazonPrepends(r, o) ==
    IF o.ok THEN [r EXCEPT !.amazon_reviews = o.reviews]
    ELSE [r EXCEPT !.errors = <<AmazonError(o.e)>> \o @]

\* The Amazon block of scrape_reviews applied to the outcome o of get_reviews
ApplyAmazon(r, o) ==
    IF o.ok THEN [r EXCEPT !.amazon_reviews = o.reviews]
    ELSE [r EXCEPT !.errors = Append(@, AmazonError(o.e))]

\* Before any cycle has ended
NoCycle == [by |-> 0, yelp_input |-> "", amazon_input |-> "", calls |-> NoCalls,
            result |-> InitialData]

\* ------------------------------------------------------------ responses
\* What jsonify(...) is given: the HTTP code, the 'status' field, the dict
Response(kind, code, status, body) ==
    [kind |-> kind, code |-> code, status |-> status, body |-> body]
NoResponse == Response("none", 0, "", InitialData)

\* ------------------------------------------------------------------ state
VARIABLES
    latest_data,      \* the global dict
    scraping_thread,  \* the global Thread reference, NoThread for None
    stop_scraping,    \* the flag of the global threading.Event
    now,              \* the clock: readings of datetime.utcnow() so far
    pc,               \* where each process is
    args,             \* yelp_input, amazon_input, refresh_interval of each process
    result,           \* the local dict `result` of each process
    calls,            \* the get_reviews calls of each process's current cycle
    req,              \* the request each handler is serving
    resp,             \* the response sent in the last step, if any
    joining,          \* the Thread each handler is joining
    woken,            \* threads notified by Event.set() while inside Event.wait()
    acked,            \* threads a /stop response has reported as stopped
    yelp_scraper,     \* what yelp_scraper.get_reviews does in this run
    amazon_scraper,   \* what amazon_scraper.get_reviews does in this run
    last,             \* the cycle of scrape_reviews that ended last
    concurrency       \* requests the clients keep in flight at the same time

\* The surroundings of a run, which no step changes: the scraper objects,
\* created once (lines 65-66), and the load the clients put on the server
fixed == <<yelp_scraper, amazon_scraper, concurrency>>

vars == <<latest_data, scraping_thread, stop_scraping, now, pc, args, result,
          calls, req, resp, joining, woken, acked, yelp_scraper, amazon_scraper,
          last, concurrency>>

\* The module as it is loaded (lines 56-70), no request received yet
Loaded ==
    /\ latest_data = InitialData
    /\ scraping_thread = NoThread
    /\ stop_scraping = FALSE
    /\ now = 0
    /\ pc = [p \in Procs |-> IF p \in Handlers THEN "idle" ELSE "unborn"]
    /\ args = [p \in Procs |-> NoArgs]
    /\ result = [p \in Procs |-> InitialData]
    /\ calls = [p \in Procs |-> NoCalls]
    /\ req = [h \in Handlers |-> "none"]
    /\ resp = NoResponse
    /\ joining = [h \in Handlers |-> NoThread]
    /\ woken = [t \in Threads |-> FALSE]
    /\ acked = {}
    /\ last = NoCycle

Init ==
    /\ Loaded
    /\ yelp_scraper \in FetchOutcomes
    /\ amazon_scraper \in FetchOutcomes
    /\ concurrency = MaxBusy

\* Thread.is_alive(): started and not yet returned from background_scraper
IsAlive(t) == t # NoThread /\ pc[t] \notin {"unborn", "done"}

\* `scraping_thread and scraping_thread.is_alive()`
JobActive == scraping_thread # NoThread /\ IsAlive(scraping_thread)

\* Request handlers are interchangeable threads: a request that arrives is
\* served by the first idle one, and the clients keep at most `concurrency`
\* requests in flight.
Busy == {g \in Handlers : pc[g] # "idle"}
Accepts(h) ==
    /\ pc[h] = "idle"
    /\ \A g \in Handlers : g < h => pc[g] # "idle"
    /\ Cardinality(Busy) < concurrency

\* A step that sends no response
Silent == resp' = NoResponse

\* ------------------------------------------------------- scrape_reviews(p)
\* Where scrape_reviews returns to: scrape_endpoint line 235 for a handler,
\* background_scraper line 163 for a thread.
AfterCycle(p) == IF p \in Handlers THEN "start" ELSE "call_wait"

\* A variant in which the Amazon block is never entered
AfterYelpSkipsAmazon(a) == "sr_status"

\* Where control goes after the Yelp block (lines 110-111) ...
AfterYelp(a) == IF a.amazon_input # "" THEN "sr_amazon" ELSE "sr_status"
\* ... and after the result dict is built (lines 99-100)
AfterBegin(a) == IF a.yelp_input # "" THEN "sr_yelp" ELSE AfterYelp(a)

\* The cycle of process p has ended with the dict r published
Completed(p, r, c) ==
    last' = [by |-> p, yelp_input |-> args[p].yelp_input,
             amazon_input |-> args[p].amazon_input, calls |-> c, result |-> r]

\* lines 88-100: build the result dict with the current time; the process
\* is then inside the first get_reviews call it has to make
SrBegin(p) ==
    /\ pc[p] = "sr_begin"
    /\ now < MaxClock
    /\ now' = now + 1
    /\ result' = [result EXCEPT ![p] = NewResult(now + 1)]
    /\ calls' = [calls EXCEPT ![p] = NoCalls]
    /\ pc' = [pc EXCEPT ![p] = AfterBegin(args[p])]
    /\ Silent
    /\ UNCHANGED <<fixed, latest_data, scraping_thread, stop_scraping, args, req,
                   joining, woken, acked, last>>

\* A variant of the Yelp block that stores the dict it is still building
SrYelpPublishes(p) ==
    /\ pc[p] = "sr_yelp"
    /\ result' = [result EXCEPT ![p] = ApplyYelp(@, yelp_scraper)]
    /\ latest_data' = ApplyYelp(result[p], yelp_scraper)
    /\ calls' = [calls EXCEPT ![p].yelp = Append(@, yelp_scraper)]
    /\ pc' = [pc EXCEPT ![p] = AfterYelp(args[p])]
    /\ Silent
    /\ UNCHANGED <<fixed, scraping_thread, stop_scraping, now, args, req,
                   joining, woken, acked, last>>

\* lines 101-111: yelp_scraper.get_reviews returns or raises
SrYelp(p) ==
    /\ pc[p] = "sr_yelp"
    /\ result' = [result EXCEPT ![p] = ApplyYelp(@, yelp_scraper)]
    /\ calls' = [calls EXCEPT ![p].yelp = Append(@, yelp_scraper)]
    /\ pc' = [pc EXCEPT ![p] = AfterYelp(args[p])]
    /\ Silent
    /\ UNCHANGED <<fixed, latest_data, scraping_thread, stop_scraping, now, args, req,
                   joining, woken, acked, last>>

\* lines 112-119: amazon_scraper.get_reviews returns or raises
SrAmazon(p) ==
    /\ pc[p] = "sr_amazon"
    /\ result' = [result EXCEPT ![p] = ApplyAmazon(@, amazon_scraper)]
    /\ calls' = [calls EXCEPT ![p].amazon = Append(@, amazon_scraper)]
    /\ pc' = [pc EXCEPT ![p] = "sr_status"]
    /\ Silent
    /\ UNCHANGED <<fixed, latest_data, scraping_thread, stop_scraping, now, args, req,
                   joining, woken, acked, last>>

\* lines 121-130: set the status, publish the dict, return it.  A handler
\* keeps the returned dict in `result`; background_scraper drops it.
SrStatus(p) ==
    /\ pc[p] = "sr_status"
    /\ latest_data' = UpdateStatus(result[p])
    /\ result' = [result EXCEPT ![p] =
                     IF p \in Handlers THEN UpdateStatus(@) ELSE InitialData]
    /\ Completed(p, UpdateStatus(result[p]), calls[p])
    /\ calls' = [calls EXCEPT ![p] = NoCalls]
    /\ pc' = [pc EXCEPT ![p] = AfterCycle(p)]
    /\ Silent
    /\ UNCHANGED <<fixed, scraping_thread, stop_scraping, now, args, req, joining,
                   woken, acked>>

\* A variant of the general handler after which a background thread ends
SrGeneralEndsJob(p) ==
    /\ pc[p] \in {"sr_begin", "sr_status"}
    /\ now < MaxClock
    /\ now' = now + 1
    /\ latest_data' = FailedResult(now + 1)
    /\ result' = [result EXCEPT ![p] =
                     IF p \in Handlers THEN FailedResult(now + 1) ELSE InitialData]
    /\ Completed(p, FailedResult(now + 1),
                 [(IF pc[p] = "sr_begin" THEN NoCalls ELSE calls[p])
                     EXCEPT !.general = TRUE])
    /\ calls' = [calls EXCEPT ![p] = NoCalls]
    /\ pc' = [pc EXCEPT ![p] = IF p \in Handlers THEN "start" ELSE "done"]
    /\ Silent
    /\ UNCHANGED <<fixed, scraping_thread, stop_scraping, args, req, joining,
                   woken, acked>>

\* lines 132-145: an exception raised in the body outside the two per-source
\* try blocks (before the first fetch or in lines 121-128); a new failed
\* dict is built, published and returned
SrGeneral(p) ==
    /\ pc[p] \in {"sr_begin", "sr_status"}
    /\ now < MaxClock
    /\ now' = now + 1
    /\ latest_data' = FailedResult(now + 1)
    /\ result' = [result EXCEPT ![p] =
                     IF p \in Handlers THEN FailedResult(now + 1) ELSE InitialData]
    /\ Completed(p, FailedResult(now + 1),
                 [(IF pc[p] = "sr_begin" THEN NoCalls ELSE calls[p])
                     EXCEPT !.general = TRUE])
    /\ calls' = [calls EXCEPT ![p] = NoCalls]
    /\ pc' = [pc EXCEPT ![p] = AfterCycle(p)]
    /\ Silent
    /\ UNCHANGED <<fixed, scraping_thread, stop_scraping, args, req, joining,
                   woken, acked>>

\* ------------------------------------------------------- threading.Event
\* Event.set(): raise the flag and notify every thread inside Event.wait()
SetWoken == [t \in Threads |-> woken[t] \/ pc[t] = "wait"]

\* --------------------------------------------------------------- requests
\* A variant of the validation that lets every request through
NoUrlGivenNever(y, a) == FALSE

\* `if not yelp_input and not amazon_input`
NoUrlGiven(y, a) == y = "" /\ a = ""

\* `if refresh_interval and refresh_interval > 0`
WantsPolling(ri) == ri # << >> /\ ri[1] # 0 /\ ri[1] > 0

\* The handler returns: its locals are gone
Return(h, r) ==
    /\ resp' = r
    /\ req' = [req EXCEPT ![h] = "none"]
    /\ joining' = [joining EXCEPT ![h] = NoThread]

\* -------------------------------------------------- GET /scrape (handler h)
\* lines 213-223: read the parameters, reject the request when both URLs
\* are missing, else go on to line 226
ScrapeRequest(h, y, a, ri) ==
    /\ Accepts(h)
    /\ IF NoUrlGiven(y, a)
       THEN /\ Return(h, Response("scrape", 400, "error", InitialData))
            /\ UNCHANGED <<pc, args, acked>>
       ELSE /\ pc' = [pc EXCEPT ![h] = "stop_old"]
            /\ args' = [args EXCEPT ![h] =
                  [yelp_input |-> y, amazon_input |-> a, refresh_interval |-> ri]]
            /\ req' = [req EXCEPT ![h] = "scrape"]
            /\ Silent
            /\ acked' = {}
            /\ UNCHANGED joining
    /\ UNCHANGED <<fixed, last, latest_data, scraping_thread, stop_scraping, now, result,
                   calls, woken>>

\* lines 226-228: when a job is alive, set the event and start joining it
StopOld(h) ==
    /\ pc[h] = "stop_old"
    /\ IF JobActive
       THEN /\ stop_scraping' = TRUE
            /\ woken' = SetWoken
            /\ joining' = [joining EXCEPT ![h] = scraping_thread]
            /\ pc' = [pc EXCEPT ![h] = "join"]
       ELSE /\ pc' = [pc EXCEPT ![h] = "sr_begin"]
            /\ UNCHANGED <<stop_scraping, woken, joining>>
    /\ Silent
    /\ UNCHANGED <<fixed, last, latest_data, scraping_thread, now, args, result, calls, req,
                   acked>>

\* What follows `scraping_thread.join(timeout=5); stop_scraping.clear()`:
\* line 232 in scrape_endpoint, the response of line 276 in
\* stop_scraping_endpoint
AfterJoin(h) ==
    IF req[h] = "scrape"
    THEN /\ pc' = [pc EXCEPT ![h] = "sr_begin"]
         /\ Silent
         /\ UNCHANGED <<req, joining, acked>>
    ELSE /\ pc' = [pc EXCEPT ![h] = "idle"]
         /\ acked' = acked \cup {joining[h]}
         /\ Return(h, Response("stop", 200, "success", InitialData))

\* lines 228-229 and 274-275: join returns because the thread has ended
JoinDone(h) ==
    /\ pc[h] = "join"
    /\ ~IsAlive(joining[h])
    /\ stop_scraping' = FALSE
    /\ AfterJoin(h)
    /\ UNCHANGED <<fixed, last, latest_data, scraping_thread, now, args, result, calls, woken>>

\* A variant for join() called without a timeout: it returns only once the
\* thread has ended
JoinWithoutTimeout(h) ==
    /\ pc[h] = "join"
    /\ ~IsAlive(joining[h])
    /\ stop_scraping' = FALSE
    /\ AfterJoin(h)
    /\ UNCHANGED <<fixed, last, latest_data, scraping_thread, now, args, result, calls, woken>>

\* lines 228-229 and 274-275: join returns because 5 seconds have passed,
\* wherever the thread is by then
JoinTimeout(h) ==
    /\ pc[h] = "join"
    /\ IsAlive(joining[h])
    /\ stop_scraping' = FALSE
    /\ AfterJoin(h)
    /\ UNCHANGED <<fixed, last, latest_data, scraping_thread, now, args, result, calls, woken>>

\* The Thread object line 236 creates: the next one not yet created
NewThread == CHOOSE t \in Threads : pc[t] = "unborn" /\ \A u \in Threads : u < t => pc[u] # "unborn"

\* lines 242-243: two keys are added to the dict `result` refers to
Annotate(r, ri) == [r EXCEPT !.background_scraping = TRUE, !.refresh_interval = ri]

\* lines 234-245: start the background thread when an interval was given,
\* add the two keys to result, respond with result
StartJob(h) ==
    /\ pc[h] = "start"
    /\ WantsPolling(args[h].refresh_interval)
    /\ \E t \in Threads : pc[t] = "unborn"
    /\ scraping_thread' = NewThread
    /\ pc' = [pc EXCEPT ![h] = "idle", ![NewThread] = "loop"]
    /\ args' = [args EXCEPT ![NewThread] = args[h], ![h] = NoArgs]
    /\ latest_data' = IF latest_data.timestamp = result[h].timestamp
                      THEN Annotate(latest_data, args[h].refresh_interval)
                      ELSE latest_data
    /\ Return(h, Response("scrape", 200, result[h].status,
                          Annotate(result[h], args[h].refresh_interval)))
    /\ result' = [result EXCEPT ![h] = InitialData]
    /\ calls' = [calls EXCEPT ![h] = NoCalls]
    /\ UNCHANGED <<fixed, last, stop_scraping, now, woken, acked>>

\* lines 234-245 when no (positive) interval was given: respond with result
RespondOnce(h) ==
    /\ pc[h] = "start"
    /\ ~WantsPolling(args[h].refresh_interval)
    /\ pc' = [pc EXCEPT ![h] = "idle"]
    /\ args' = [args EXCEPT ![h] = NoArgs]
    /\ Return(h, Response("scrape", 200, result[h].status, result[h]))
    /\ result' = [result EXCEPT ![h] = InitialData]
    /\ calls' = [calls EXCEPT ![h] = NoCalls]
    /\ UNCHANGED <<fixed, last, latest_data, scraping_thread, stop_scraping, now, woken, acked>>

\* ---------------------------------------------------- POST /stop (handler h)
\* lines 272-274: a job is alive: set the event and start joining it
StopRequest(h) ==
    /\ Accepts(h)
    /\ JobActive
    /\ stop_scraping' = TRUE
    /\ woken' = SetWoken
    /\ joining' = [joining EXCEPT ![h] = scraping_thread]
    /\ req' = [req EXCEPT ![h] = "stop"]
    /\ pc' = [pc EXCEPT ![h] = "join"]
    /\ Silent
    /\ UNCHANGED <<fixed, last, latest_data, scraping_thread, now, args, result, calls, acked>>

\* lines 277-278: no job is alive
StopNothing(h) ==
    /\ Accepts(h)
    /\ ~JobActive
    /\ Return(h, Response("stop", 200, "info", InitialData))
    /\ UNCHANGED <<fixed, last, latest_data, scraping_thread, stop_scraping, now, pc, args,
                   result, calls, woken, acked>>

\* --------------------------------------------------- GET /latest (handler h)
\* lines 257-258: respond with the dict latest_data refers to
GetLatest(h) ==
    /\ Accepts(h)
    /\ Return(h, Response("latest", 200, latest_data.status, latest_data))
    /\ UNCHANGED <<fixed, last, latest_data, scraping_thread, stop_scraping, now, pc, args,
                   result, calls, woken, acked>>

\* ------------------------------------------------- background_scraper (t)
\* line 159: `while not stop_scraping.is_set()`
LoopTop(t) ==
    /\ pc[t] = "loop"
    /\ pc' = [pc EXCEPT ![t] = IF stop_scraping THEN "done" ELSE "sr_begin"]
    /\ Silent
    /\ UNCHANGED <<fixed, last, latest_data, scraping_thread, stop_scraping, now, args,
                   result, calls, req, joining, woken, acked>>

\* line 163: stop_scraping.wait(refresh_interval) is entered; with the flag
\* set it returns True at once and the loop is left
CallWait(t) ==
    /\ pc[t] = "call_wait"
    /\ pc' = [pc EXCEPT ![t] = IF stop_scraping THEN "done" ELSE "wait"]
    /\ woken' = [woken EXCEPT ![t] = FALSE]
    /\ Silent
    /\ UNCHANGED <<fixed, last, latest_data, scraping_thread, stop_scraping, now, args,
                   result, calls, req, joining, acked>>

\* line 163: the interval passes, wait returns False, back to line 159
WaitTimeout(t) ==
    /\ pc[t] = "wait"
    /\ ~woken[t]
    /\ pc' = [pc EXCEPT ![t] = "loop"]
    /\ Silent
    /\ UNCHANGED <<fixed, last, latest_data, scraping_thread, stop_scraping, now, args,
                   result, calls, req, joining, woken, acked>>

\* lines 163-166: set() notified the waiting thread, wait returns True, break
WaitWoken(t) ==
    /\ pc[t] = "wait"
    /\ woken[t]
    /\ pc' = [pc EXCEPT ![t] = "done"]
    /\ Silent
    /\ UNCHANGED <<fixed, last, latest_data, scraping_thread, stop_scraping, now, args,
                   result, calls, req, joining, woken, acked>>

\* ---------------------------------------------------------- specification
Next ==
    \/ \E h \in Handlers, y \in YelpArgs, a \in AmazonArgs, ri \in IntervalArgs :
          ScrapeRequest(h, y, a, ri)
    \/ \E h \in Handlers : StopOld(h)
    \/ \E h \in Handlers : JoinDone(h)
    \/ \E h \in Handlers : JoinTimeout(h)
    \/ \E h \in Handlers : StartJob(h)
    \/ \E h \in Handlers : RespondOnce(h)
    \/ \E h \in Handlers : StopRequest(h)
    \/ \E h \in Handlers : StopNothing(h)
    \/ \E h \in Handlers : GetLatest(h)
    \/ \E p \in Procs : SrBegin(p)
    \/ \E p \in Procs : SrYelp(p)
    \/ \E p \in Procs : SrAmazon(p)
    \/ \E p \in Procs : SrStatus(p)
    \/ \E p \in Procs : SrGeneral(p)
    \/ \E t \in Threads : LoopTop(t)
    \/ \E t \in Threads : CallWait(t)
    \/ \E t \in Threads : WaitTimeout(t)
    \/ \E t \in Threads : WaitWoken(t)

Spec == Init /\ [][Next]_vars

\* ------------------------------------------- scrape_reviews called directly
\* scrape_reviews is a module-level function (line 73): besides the endpoint
\* and the background thread, any code that imports the module can call it,
\* with any pair of arguments, the empty ones included.
DirectCall(h, y, a) ==
    /\ Accepts(h)
    /\ pc' = [pc EXCEPT ![h] = "sr_begin"]
    /\ args' = [args EXCEPT ![h] =
          [yelp_input |-> y, amazon_input |-> a, refresh_interval |-> << >>]]
    /\ req' = [req EXCEPT ![h] = "call"]
    /\ Silent
    /\ UNCHANGED <<fixed, last, latest_data, scraping_thread, stop_scraping, now,
                   result, calls, joining, woken, acked>>

\* line 130 for such a caller: it has the returned dict and goes its way
DirectReturn(h) ==
    /\ pc[h] = "start"
    /\ req[h] = "call"
    /\ pc' = [pc EXCEPT ![h] = "idle"]
    /\ args' = [args EXCEPT ![h] = NoArgs]
    /\ result' = [result EXCEPT ![h] = InitialData]
    /\ req' = [req EXCEPT ![h] = "none"]
    /\ Silent
    /\ UNCHANGED <<fixed, last, latest_data, scraping_thread, stop_scraping, now,
                   calls, joining, woken, acked>>

NextCycle ==
    \/ \E h \in Handlers, y \in YelpArgs, a \in AmazonArgs : DirectCall(h, y, a)
    \/ \E h \in Handlers : DirectReturn(h)
    \/ \E p \in Procs : SrBegin(p)
    \/ \E p \in Procs : SrYelp(p)
    \/ \E p \in Procs : SrAmazon(p)
    \/ \E p \in Procs : SrStatus(p)
    \/ \E p \in Procs : SrGeneral(p)

\* scrape_reviews on its own, called with every pair of arguments
SpecCycle == Init /\ [][NextCycle]_vars

\* ------------------------------------------------- overlapping requests
\* The server runs with threaded=True (line 313) and the handlers take no
\* lock: requests overlap when the clients send them so.  The runs below are
\* those of clients that ask for the Yelp source only.
MaxOverlap == 2

\* The steps of the service for requests that name no Amazon product
NextYelp ==
    \/ \E h \in Handlers, y \in YelpArgs, ri \in {<< >>, <<1>>} :
          ScrapeRequest(h, y, "", ri)
    \/ \E h \in Handlers : StopOld(h)
    \/ \E h \in Handlers : JoinDone(h)
    \/ \E h \in Handlers : JoinTimeout(h)
    \/ \E h \in Handlers : StartJob(h)
    \/ \E h \in Handlers : RespondOnce(h)
    \/ \E h \in Handlers : StopRequest(h)
    \/ \E h \in Handlers : StopNothing(h)
    \/ \E h \in Handlers : GetLatest(h)
    \/ \E p \in Procs : SrBegin(p)
    \/ \E p \in Procs : SrYelp(p)
    \/ \E p \in Procs : SrStatus(p)
    \/ \E p \in Procs : SrGeneral(p)
    \/ \E t \in Threads : LoopTop(t)
    \/ \E t \in Threads : CallWait(t)
    \/ \E t \in Threads : WaitTimeout(t)
    \/ \E t \in Threads : WaitWoken(t)

\* Two requests in flight at a time; the Yelp scraper returns one review
InitConcurrent ==
    /\ Loaded
    /\ yelp_scraper = [ok |-> TRUE, reviews |-> <<"review">>, e |-> ""]
    /\ amazon_scraper \in {o \in FetchOutcomes : ~o.ok}
    /\ concurrency = MaxOverlap

SpecConcurrent == InitConcurrent /\ [][NextYelp]_vars

\* One request at a time, every behaviour of the Yelp scraper
InitYelp ==
    /\ Loaded
    /\ yelp_scraper \in FetchOutcomes
    /\ amazon_scraper \in {o \in FetchOutcomes : ~o.ok}
    /\ concurrency = MaxBusy

\* join(timeout=5) returns: at the latest 5 seconds after it was called.
\* Nothing is assumed about the threads: a get_reviews call may never return.
JoinReturns == \A h \in Handlers : WF_vars(JoinDone(h) \/ JoinTimeout(h))

SpecFair == InitYelp /\ [][NextYelp]_vars /\ JoinReturns

\* ================================================================ claims
\* The writes of latest_data that scrape_reviews makes for process p
Publishes(p) == SrStatus(p) \/ SrGeneral(p)

\* ---- the last cycle, read per source
Sources == {"yelp", "amazon"}
RequestedIn(c, s) == IF s = "yelp" THEN c.yelp_input # "" ELSE c.amazon_input # ""
CallsIn(c, s) == IF s = "yelp" THEN c.calls.yelp ELSE c.calls.amazon
ListIn(c, s) == IF s = "yelp" THEN c.result.yelp_reviews ELSE c.result.amazon_reviews
\* the requested source s raised / returned in cycle c
ErrIn(c, s) == RequestedIn(c, s) /\ CallsIn(c, s) # << >> /\ ~CallsIn(c, s)[1].ok
OkIn(c, s) == RequestedIn(c, s) /\ CallsIn(c, s) # << >> /\ CallsIn(c, s)[1].ok
\* the records source s produced in cycle c
RecordsIn(c, s) == IF OkIn(c, s) THEN CallsIn(c, s)[1].reviews ELSE << >>
\* An aggregation cycle: a run of scrape_reviews that classified the outcomes
\* of its sources (lines 90-130).  A run cut short by an unexpected error
\* (lines 132-145) has no per-source outcome to classify.
Aggregated(c) == c.by # 0 /\ ~c.calls.general

\* C1: at most one background polling job (a thread running
\* background_scraper) is alive at any time.
C1_AtMostOneJob == Cardinality({t \in Threads : IsAlive(t)}) <= 1

\* C2: once a second StartPolling has run its first (foreground) cycle and
\* started its job, only that job writes the snapshot: a thread that is no
\* longer the current scraping_thread never publishes a cycle.
C2_OnlyCurrentJobWrites ==
    [][\A t \in Threads : Publishes(t) => t = scraping_thread]_vars

\* C3: a /stop request that found a job alive answers that it stopped it,
\* and a job so reported never writes the snapshot again as long as no new
\* scrape request is made.
C3_NoWriteAfterStop ==
    [][/\ \A h \in Handlers :
             (req[h] = "stop" /\ pc[h] = "join" /\ pc'[h] = "idle")
                 => (resp'.kind = "stop" /\ resp'.status = "success")
       /\ \A t \in acked : ~Publishes(t)]_vars

\* C4: a /stop request that finds no job alive answers that nothing was
\* stopped and leaves latest_data, scraping_thread and the event unchanged;
\* and when any /stop request is answered no job is alive, so that a second
\* /stop directly after it is that no-op case.
C4_StopIdempotent ==
    [][/\ \A h \in Handlers :
             StopNothing(h) =>
                 /\ resp'.status = "info"
                 /\ UNCHANGED <<latest_data, scraping_thread, stop_scraping>>
       /\ (resp'.kind = "stop" /\ resp' # resp) => ~JobActive']_vars

\* C5: a scrape request with both identifiers absent is answered with the
\* validation error (400) at once: the handler makes no get_reviews call,
\* starts no cycle and latest_data is unchanged.
C5_RejectedWithoutFetch ==
    [][\A h \in Handlers, ri \in IntervalArgs :
          ScrapeRequest(h, "", "", ri) =>
              /\ resp'.kind = "scrape" /\ resp'.code = 400
              /\ pc'[h] = "idle"
              /\ UNCHANGED <<latest_data, calls, last, now>>]_vars

\* a rejected request, made after a snapshot had been stored
C5_Witness ==
    resp.kind = "scrape" /\ resp.code = 400 /\ latest_data.status # "no_data"

\* ---- the outcome of the last cycle
AnyRequested(c) == \E s \in Sources : RequestedIn(c, s)
AnyFailed(c) == \E s \in Sources : ErrIn(c, s)
NoRecords(c) == \A s \in Sources : RecordsIn(c, s) = << >>
\* the messages of the requested sources that failed in cycle c, Yelp first
ExpectedErrors(c) ==
    (IF ErrIn(c, "yelp") THEN <<YelpError(c.calls.yelp[1].e)>> ELSE << >>)
        \o (IF ErrIn(c, "amazon") THEN <<AmazonError(c.calls.amazon[1].e)>> ELSE << >>)

\* C6 as stated: the snapshot of an aggregation cycle has status failed if
\* and only if a source was requested, every requested source raised and no
\* source produced records; so a cycle where one requested source raises and
\* the other returns an empty list is not failed.
C6_FailedIffAllFailed ==
    Aggregated(last) =>
        (last.result.status = "failed" <=>
            /\ AnyRequested(last)
            /\ \A s \in Sources : RequestedIn(last, s) => ErrIn(last, s)
            /\ NoRecords(last))

\* C6 amended: the snapshot of an aggregation cycle has status failed if and
\* only if at least one requested source raised and no source produced
\* records; a cycle where one requested source raises and the other returns
\* an empty list is failed.
C6_FailedIffErrorAndNoRecords ==
    Aggregated(last) =>
        (last.result.status = "failed" <=> (AnyFailed(last) /\ NoRecords(last)))

\* a cycle where one source raised and the other returned an empty list
C6_Witness ==
    /\ Aggregated(last)
    /\ \E s, u \in Sources :
          ErrIn(last, s) /\ OkIn(last, u) /\ RecordsIn(last, u) = << >>
    /\ last.result.status = "failed"

\* C7: the snapshot of an aggregation cycle has status partial_success if
\* and only if a requested source raised and a requested source returned a
\* non-empty list; the list of the source that raised is then empty and the
\* list of the source that returned holds exactly what it returned.
C7_PartialIffErrorAndRecords ==
    Aggregated(last) =>
        /\ last.result.status = "partial_success" <=>
              (AnyFailed(last) /\ ~NoRecords(last))
        /\ last.result.status = "partial_success" =>
              \A s \in Sources :
                  /\ ErrIn(last, s) => ListIn(last, s) = << >>
                  /\ OkIn(last, s) => ListIn(last, s) = RecordsIn(last, s)

\* a cycle where one source raised and the other returned reviews
C7_Witness ==
    /\ Aggregated(last)
    /\ \E s, u \in Sources :
          ErrIn(last, s) /\ OkIn(last, u) /\ RecordsIn(last, u) # << >>
    /\ last.result.status = "partial_success"

\* C8: the snapshot of an aggregation cycle has status success if and only
\* if every requested source returned, whatever the length of its list; when
\* one source alone is requested and returns, its list holds what it
\* returned, the other list is empty and errors is empty.
C8_SuccessIffAllOk ==
    Aggregated(last) =>
        /\ last.result.status = "success" <=>
              \A s \in Sources : RequestedIn(last, s) => OkIn(last, s)
        /\ \A s, u \in Sources :
              (s # u /\ OkIn(last, s) /\ ~RequestedIn(last, u)) =>
                  /\ last.result.status = "success"
                  /\ ListIn(last, s) = RecordsIn(last, s)
                  /\ ListIn(last, u) = << >>
                  /\ last.result.errors = << >>

\* a cycle where one source alone was requested and returned reviews
C8_Witness ==
    /\ Aggregated(last)
    /\ \E s, u \in Sources :
          /\ s # u /\ ~RequestedIn(last, u)
          /\ OkIn(last, s) /\ Len(ListIn(last, s)) = MaxReviews
    /\ last.result.status = "success"

\* C9: in every state the errors list of latest_data is non-empty if and
\* only if its status is partial_success or failed.
C9_ErrorsIffNotSuccess ==
    latest_data.errors # << >> <=>
        latest_data.status \in {"partial_success", "failed"}

\* latest_data holds a partial snapshot with its message while a job runs
C9_Witness ==
    /\ latest_data.status = "partial_success"
    /\ latest_data.errors # << >>
    /\ JobActive

\* C10: the errors list of an aggregation cycle holds exactly one message
\* for each requested source that raised, the Yelp message before the Amazon
\* message; when both raise it has two entries and both lists are empty.
C10_OneErrorPerFailedSource ==
    Aggregated(last) =>
        /\ last.result.errors = ExpectedErrors(last)
        /\ (ErrIn(last, "yelp") /\ ErrIn(last, "amazon")) =>
              /\ Len(last.result.errors) = 2
              /\ last.result.errors[1].prefix = "Yelp scraping failed"
              /\ last.result.errors[2].prefix = "Amazon scraping failed"
              /\ last.result.yelp_reviews = << >>
              /\ last.result.amazon_reviews = << >>

\* a cycle where both sources raised
C10_Witness ==
    /\ Aggregated(last)
    /\ ErrIn(last, "yelp") /\ ErrIn(last, "amazon")
    /\ Len(last.result.errors) = 2

\* No scrape request has got past the validation yet: no handler is serving
\* one and no cycle has ended.
NoScrapeYet == last.by = 0 /\ \A h \in Handlers : req[h] # "scrape"

\* C11: as long as no scrape request has been accepted, every /latest
\* request is answered with status no_data, both lists empty and errors
\* empty, whatever /latest, /stop and rejected /scrape requests came before.
C11_NoDataBeforeScrape ==
    [][\A h \in Handlers :
          (GetLatest(h) /\ NoScrapeYet) =>
              /\ resp'.kind = "latest"
              /\ resp'.body.status = "no_data"
              /\ resp'.body.yelp_reviews = << >>
              /\ resp'.body.amazon_reviews = << >>
              /\ resp'.body.errors = << >>]_vars

\* a /latest request answered before any scrape request
C11_Witness ==
    /\ resp.kind = "latest"
    /\ NoScrapeYet
    /\ resp.body.status = "no_data"

Core(d) == <<d.timestamp, d.yelp_reviews, d.amazon_reviews, d.status, d.errors>>
\* Process p is inside a cycle, with a result dict it has not stored yet
InCycle(p) == pc[p] \in {"sr_yelp", "sr_amazon", "sr_status"}

\* C13: the snapshot a /latest request reads while cycles are running has
\* its timestamp, both lists, status and errors all from the one cycle that
\* completed last, and it is never the dict a running cycle is still
\* building.
C13_NoTornRead ==
    [][\A h \in Handlers :
          GetLatest(h) =>
              /\ Core(resp'.body) = Core(last.result)
              /\ \A p \in Procs :
                    InCycle(p) => resp'.body.timestamp # result[p].timestamp]_vars

\* a /latest request answered with an earlier cycle's snapshot while a
\* foreground cycle and a background cycle are both in progress
C13_Witness ==
    /\ resp.kind = "latest"
    /\ resp.body.timestamp # 0
    /\ \E h \in Handlers : InCycle(h)
    /\ \E t \in Threads : InCycle(t)

\* C14: what latest_data holds changes only when a cycle stores the dict it
\* has built: a stored snapshot is never modified, so two /latest requests
\* with no cycle completing in between read the same content.
C14_OnlyReplaced ==
    [][latest_data' # latest_data => \E p \in Procs : Publishes(p)]_vars

\* C15: a cycle calls get_reviews exactly once for each requested source
\* and never for a source that was not requested, whatever the other call
\* did: at no point of a cycle has a source been called twice, and a
\* completed aggregation cycle has made one call per requested source.
C15_EachSourceOnce ==
    /\ \A p \in Procs :
          /\ Len(calls[p].yelp) <= (IF args[p].yelp_input # "" THEN 1 ELSE 0)
          /\ Len(calls[p].amazon) <= (IF args[p].amazon_input # "" THEN 1 ELSE 0)
    /\ Aggregated(last) =>
          \A s \in Sources :
              Len(CallsIn(last, s)) = (IF RequestedIn(last, s) THEN 1 ELSE 0)

\* a cycle in which the Yelp call raised and the Amazon call was made
C15_Witness ==
    /\ Aggregated(last)
    /\ ErrIn(last, "yelp")
    /\ Len(last.calls.amazon) = 1

\* C16: a background thread never leaves its loop because a cycle failed.
\* A cycle that raises an unexpected error stores a failed snapshot with the
\* one general message and returns to the loop, as does every other cycle;
\* from there the thread waits and, with the event not set, starts the next
\* cycle; it ends only when the event is set or has woken it.
C16_JobSurvivesFailingCycle ==
    [][\A t \in Threads :
          /\ SrGeneral(t) =>
                /\ latest_data'.status = "failed"
                /\ latest_data'.errors = <<GeneralError("unexpected")>>
                /\ pc'[t] = "call_wait"
          /\ SrStatus(t) => pc'[t] = "call_wait"
          /\ (pc[t] = "call_wait" /\ pc'[t] # "call_wait" /\ ~stop_scraping)
                => pc'[t] = "wait"
          /\ (pc[t] = "wait" /\ pc'[t] # "wait" /\ ~woken[t]) => pc'[t] = "loop"
          /\ (pc[t] = "loop" /\ pc'[t] # "loop" /\ ~stop_scraping)
                => pc'[t] = "sr_begin"
          /\ (pc[t] # "done" /\ pc'[t] = "done") => (stop_scraping \/ woken[t])]_vars

\* a thread whose cycle raised an unexpected error is running its next cycle
C16_Witness ==
    /\ last.by \in Threads
    /\ last.calls.general
    /\ InCycle(last.by)

\* Handler h is inside lines 226-243 of scrape_endpoint or lines 272-276 of
\* stop_scraping_endpoint
InStopStart(h) == pc[h] # "idle" /\ req[h] \in {"scrape", "stop"}

\* C17: at no time are two request handlers inside the sequence that stops
\* the old job and starts the new one.
C17_Serialized == Cardinality({h \in Handlers : InStopStart(h)}) <= 1

\* C18: stopping a job never blocks the caller for good: a /stop request
\* that is joining the thread returns, and a /scrape request that is joining
\* the old thread goes on to its own cycle, even when the thread never comes
\* back from a get_reviews call.
C18_StopNeverDeadlocks ==
    \A h \in Handlers :
        /\ (pc[h] = "join" /\ req[h] = "stop") ~> (pc[h] = "idle")
        /\ (pc[h] = "join" /\ req[h] = "scrape") ~> (pc[h] = "sr_begin")

\* a /stop request has returned while the thread it joined is still inside
\* its get_reviews call
C18_Witness == \E t \in acked : pc[t] = "sr_yelp"

\* C19: snapshots are stored in the order their cycles complete and carry
\* the time of completion, so the timestamp of latest_data never decreases,
\* also when a foreground cycle and a cycle of a background thread overlap.
C19_TimestampsMonotone ==
    [][latest_data'.timestamp >= latest_data.timestamp]_vars

\* C20: a stop signal only ends the job it was set for: when the current
\* job finds the event set at its loop test and ends, some request is
\* joining that very thread; it is never ended by the signal of a request
\* that is stopping the previous job.
C20_SignalHitsOwnJob ==
    [][\A t \in Threads :
          (LoopTop(t) /\ pc'[t] = "done" /\ t = scraping_thread) =>
              \E h \in Handlers : pc[h] = "join" /\ joining[h] = t]_vars

====
